---- MODULE Spec2Model ----
(***************************************************************************)
(* Model of TranslationService (src/langtek.py): the memory cache          *)
(* (word_dict), the SQLite store (table translations), the per-provider    *)
(* and global rate windows, the backfill queue with its worker thread,     *)
(* the pending set, and the database editor's manual edit                  *)
(* (RSSApp.add_update_translation).                                        *)
(*                                                                         *)
(* Three threads are modelled: a caller thread running lookup_word (the    *)
(* application calls it from background threads, langtek.py:1397/1499),    *)
(* the queue worker (_process_translation_queue) and the UI thread doing   *)
(* manual edits.  Each action is one statement group between two accesses  *)
(* to shared state; a "with lock:" block is one action.                    *)
(*                                                                         *)
(* Spec runs the caller and the worker, SpecEdit adds the database editor, *)
(* SpecShutdown adds __del__, SpecBlank adds lookups of blank words,       *)
(* SpecRaw looks up a word with leading whitespace, SpecListener lets the  *)
(* worker's completion listener raise, SpecLive runs the worker under      *)
(* weak fairness on requests put into its queue, SpecStoreFault adds       *)
(* failing reads and writes of the store, and SpecLine has the caller      *)
(* thread run word_for_word_line, which segments a line and looks up each  *)
(* of its words.  SpecShortLine, SpecEarlyLine, SpecInnerLine and          *)
(* SpecFaultLine run word_for_word_line on shorter lines: at any time, in  *)
(* the first tick of the clock, with punctuation inside a word, and with   *)
(* failing reads of the store.  SpecDictionary is the dictionary manager   *)
(* of src/db/db.py (DictionaryManager) with its own table.                 *)
(***************************************************************************)
EXTENDS Integers, Sequences, FiniteSets, TLC

-----------------------------------------------------------------------------
(* Bounds of the model *)

\* per-provider max_per_minute, scaled down from 15/20/15/10
ApiLimit == 1
\* max_requests_per_minute of the worker's global window, scaled down from 10
GlobalLimit == 1
\* number of clock steps in a run
MaxTicks == 2
\* lookups are not started while the queue holds this many items
MaxQueue == 2

-----------------------------------------------------------------------------
(* Program constants *)

\* length of the rolling rate window in seconds
Window == 60

\* the clock of the model advances in steps of half a window
TickLen == Window \div 2

\* a key that a dict does not have / a local that is not set
Missing == "<missing>"

NoTranslationFound == "[no translation found]"
Translating == "[translating...]"
ErrorText == "[error]"
\* the second string word_for_word_line takes for a failed lookup
LookupError == "[lookup error]"

\* what a provider answers, what the editor types, what the database file
\* already holds
ProviderText == "dog"
ManualText == "hound"
StoredText == "cat"

\* words passed to lookup_word
InputWords == {"Gato"}

\* words that are empty after trimming
BlankWords == {"", " "}

\* words with surrounding whitespace passed to lookup_word
RawWords == {" Gato"}

\* str.lower().strip() on the words of the model
lower(w) == CASE w = "Gato" -> "gato"
              [] w = " Gato" -> " gato"
              [] w = "Perro" -> "perro"
              [] w = "Hola" -> "hola"
              [] OTHER -> w

strip(w) == CASE w = "perro " -> "perro"
              [] w = " gato" -> "gato"
              [] w = " Gato" -> "Gato"
              [] w = " " -> ""
              [] OTHER -> w

Keys == {strip(lower(w)) : w \in InputWords}

\* the provider list, cut to its first two entries
translation_apis ==
    << [name |-> "LibreTranslate", max_per_minute |-> ApiLimit],
       [name |-> "Lingva", max_per_minute |-> ApiLimit] >>

NumApis == Len(translation_apis)

max_requests_per_minute == GlobalLimit

\* the item __del__ puts into the queue
NoneRequest == "<None>"

-----------------------------------------------------------------------------
(* Values *)

\* {"text": t, "source": s}
DictSource(t, s) == [type |-> "dict", text |-> t, source |-> s, api |-> Missing]
\* {"text": t, "api": a}, the value _perform_online_translation returns
DictApi(t, a) == [type |-> "dict", text |-> t, source |-> Missing, api |-> a]
\* a plain string
Str(t) == [type |-> "str", text |-> t, source |-> Missing, api |-> Missing]
\* None
NoneValue == [type |-> "none", text |-> Missing, source |-> Missing, api |-> Missing]

\* Python truthiness of a translation value
Truthy(v) == v.type = "dict" \/ (v.type = "str" /\ v.text # "")

VARIABLES
    word_dict,            \* memory cache: key -> value
    store,                \* table translations: spanish -> english
    api_timestamps,       \* api_config['timestamps'] of each provider
    request_timestamps,   \* the worker's global window
    translation_queue,    \* queue.Queue of requests
    pending_translations, \* words marked pending
    now,                  \* time.time()
    lk,                   \* the thread inside lookup_word
    wk,                   \* the worker thread
    ed,                   \* the UI thread inside add_update_translation
    admitted,             \* history: every instant a provider call was admitted
    deferred,             \* history: words for which lookup returned the placeholder
    served,               \* history: words whose request the worker has finished
    translated,           \* history: words the worker obtained a translation for
    answered,             \* history: some provider call has returned a text
    sentinel,             \* history: "no", "queued" or "taken"
    refreshed,            \* history: cache keys present when refresh_callback ran
    ln,                   \* the thread inside word_for_word_line
    dictionary            \* DictionaryManager: the rows of its table translations

vars == << word_dict, store, api_timestamps, request_timestamps,
           translation_queue, pending_translations, now, lk, wk, ed,
           admitted, deferred, served, translated, answered, sentinel,
           refreshed, ln, dictionary >>

hist == << admitted, deferred, served, translated, answered, sentinel,
           refreshed >>

shared == << word_dict, store, api_timestamps, request_timestamps,
             translation_queue, pending_translations >>

-----------------------------------------------------------------------------
(* Rate windows *)

\* [ts for ts in timestamps if current_time - ts < 60]
Prune(ts, t) == SelectSeq(ts, LAMBDA x : t - x < Window)

\* the rate check with ">" for ">="
RateLimitedOffByOne(ts, max) == Len(ts) > max

\* len(timestamps) >= max_per_minute
RateLimited(ts, max) == Len(ts) >= max

\* an admission decision that stamps the window of a skipped provider too
AdmitStampsSkipped(ts, t, max) == Append(Prune(ts, t), t)

\* the window after one admission decision at time t
Admit(ts, t, max) ==
    IF RateLimited(Prune(ts, t), max) THEN Prune(ts, t)
    ELSE Append(Prune(ts, t), t)

-----------------------------------------------------------------------------
(* Dicts and the table *)

\* {}
EmptyDict == [x \in {} |-> Missing]

\* d[k] = v
Put(d, k, v) == [x \in DOMAIN d \cup {k} |-> IF x = k THEN v ELSE d[x]]

\* SELECT english FROM translations WHERE spanish = k COLLATE NOCASE; fetchone()
Select(tbl, k) ==
    LET rows == {s \in DOMAIN tbl : lower(s) = lower(k)}
    IN  IF rows = {} THEN NoneValue ELSE Str(tbl[CHOOSE s \in rows : TRUE])

\* INSERT OR REPLACE INTO translations (spanish, english) VALUES (k, t)
InsertOrReplace(tbl, k, t) == Put(tbl, k, t)

\* INSERT OR IGNORE INTO translations (spanish, english) VALUES (k, t)
InsertOrIgnore(tbl, k, t) == IF k \in DOMAIN tbl THEN tbl ELSE Put(tbl, k, t)

\* UPDATE translations SET english = t WHERE spanish = k
Update(tbl, k, t) == IF k \in DOMAIN tbl THEN Put(tbl, k, t) ELSE tbl

\* the cache hit of lookup_word: the text it returns, or the KeyError that
\* word_dict[word_lower]['source'] raises on a dict without that key
CacheHit(e) ==
    IF e.type = "dict"
    THEN IF e.source = Missing
         THEN [raised |-> TRUE, text |-> Missing]
         ELSE [raised |-> FALSE, text |-> e.text]
    ELSE [raised |-> FALSE, text |-> e.text]

\* the store hit caching the sentinel instead of the row
DatabaseEntryLost(t) == DictSource(NoTranslationFound, "database")

\* the entry lookup_word caches after a store hit
DatabaseEntry(t) == DictSource(t, "database")

\* the provider's answer cached without the provider's name
ProviderEntryUntagged(v) == DictSource(v.text, "delayed_api")

\* the entry lookup_word caches after a provider answered
ProviderEntry(v) == DictSource(v.text, v.api)

\* the entry the except handler of lookup_word caches
ErrorEntry == DictSource(ErrorText, "error")

\* translation or "[no translation found]"
CallbackArg(v) == IF Truthy(v) THEN v ELSE Str(NoTranslationFound)

\* the entry update_cache writes for its argument
UpdateCacheEntry(v) ==
    IF v.type = "dict" THEN v ELSE DictSource(v.text, "delayed_api")

-----------------------------------------------------------------------------
(* Initial state: the state after TranslationService.__init__ *)

IdleLookup ==
    [pc |-> "idle", word |-> Missing, i |-> 0, ct |-> 0, tr |-> NoneValue,
     result |-> Missing, via |-> Missing, calls |-> 0, stamps |-> 0,
     enq |-> 0, wrote |-> {}, after |-> "no", tried |-> <<>>, gstamps |-> 0]

IdleWorker ==
    [pc |-> "get", word |-> Missing, i |-> 0, tr |-> NoneValue, wake |-> 0,
     tried |-> <<>>, gstamps |-> 0, cb |-> 0]

IdleEditor == [pc |-> "idle", word |-> Missing, exists |-> FALSE]

\* word_for_word_line is not running
IdleLine ==
    [pc |-> "idle", words |-> <<>>, k |-> 0, translated_words |-> <<>>,
     result |-> <<>>, lookups |-> <<>>, cache |-> EmptyDict, quiet |-> FALSE]

\* the database file may already hold a row
InitialStores == { EmptyDict, [k \in {"gato"} |-> StoredText] }

Init ==
    /\ word_dict = EmptyDict
    /\ store \in InitialStores
    /\ api_timestamps = [i \in 1..NumApis |-> <<>>]
    /\ request_timestamps = <<>>
    /\ translation_queue = <<>>
    /\ pending_translations = {}
    /\ now = 0
    /\ lk = IdleLookup
    /\ wk = IdleWorker
    /\ ed = IdleEditor
    /\ admitted = [i \in 1..NumApis |-> <<>>]
    /\ deferred = {}
    /\ served = {}
    /\ translated = {}
    /\ answered = FALSE
    /\ sentinel = "no"
    /\ refreshed = {}
    /\ ln = IdleLine
    /\ dictionary = {}

-----------------------------------------------------------------------------
(* lookup_word *)

\* word.lower().strip()
word_lower(w) == strip(lower(w))

\* lookup_word returns r
Return(r, via) ==
    [lk EXCEPT !.pc = "done", !.result = r, !.via = via, !.i = 0, !.ct = 0,
               !.tr = NoneValue]

\* entry of lookup_word up to the memory cache check, with the cache hit
\* and the except handler that a failing cache hit runs into
LookupCall(w) ==
    /\ lk.pc = "idle"
    /\ Len(translation_queue) < MaxQueue
    /\ LET k == word_lower(w)
           call == [IdleLookup EXCEPT !.word = w,
                       !.after = IF w \in deferred /\ w \in translated
                                 THEN "translated"
                                 ELSE IF w \in deferred /\ w \in served
                                 THEN "served" ELSE "no"]
       IN  IF w = ""
           THEN /\ lk' = [call EXCEPT !.pc = "done",
                              !.result = NoTranslationFound, !.via = "empty"]
                /\ word_dict' = word_dict
           ELSE IF k \in DOMAIN word_dict
           THEN IF CacheHit(word_dict[k]).raised
                THEN /\ word_dict' = Put(word_dict, k, ErrorEntry)
                     /\ lk' = [call EXCEPT !.pc = "done", !.result = ErrorText,
                                   !.via = "error", !.wrote = {"cache"}]
                ELSE /\ word_dict' = word_dict
                     /\ lk' = [call EXCEPT !.pc = "done",
                                   !.result = CacheHit(word_dict[k]).text,
                                   !.via = "cache"]
           ELSE /\ word_dict' = word_dict
                /\ lk' = [call EXCEPT !.pc = "store"]
    /\ UNCHANGED << store, api_timestamps, request_timestamps,
                    translation_queue, pending_translations, now, wk, ed, dictionary,
                    hist, ln >>

\* the SELECT of lookup_word; on a miss, current_time = time.time()
LookupStoreRead ==
    /\ lk.pc = "store"
    /\ LET r == Select(store, word_lower(lk.word))
       IN  IF r # NoneValue
           THEN lk' = [lk EXCEPT !.pc = "populate", !.tr = r]
           ELSE lk' = [lk EXCEPT !.pc = "probe", !.i = 1, !.ct = now]
    /\ UNCHANGED << shared, now, wk, ed, dictionary, hist, ln >>

\* _get_db_connection or the SELECT of lookup_word raises (the file cannot
\* be opened, the database stays locked): the except handler of lookup_word
LookupStoreReadFails ==
    /\ lk.pc = "store"
    /\ word_dict' = Put(word_dict, word_lower(lk.word), ErrorEntry)
    /\ lk' = [Return(ErrorText, "readerror") EXCEPT !.wrote = {"cache"}]
    /\ UNCHANGED << store, api_timestamps, request_timestamps,
                    translation_queue, pending_translations, now, wk, ed, dictionary,
                    hist, ln >>

\* store hit: cache the row and return it
LookupPopulate ==
    /\ lk.pc = "populate"
    /\ word_dict' = Put(word_dict, word_lower(lk.word), DatabaseEntry(lk.tr.text))
    /\ lk' = [Return(lk.tr.text, "store") EXCEPT !.wrote = {"cache"}]
    /\ UNCHANGED << store, api_timestamps, request_timestamps,
                    translation_queue, pending_translations, now, wk, ed, dictionary,
                    hist, ln >>

\* one iteration of the loop that looks for a provider with room
LookupProbe ==
    /\ lk.pc = "probe"
    /\ LET api == translation_apis[lk.i]
           ts == Prune(api_timestamps[lk.i], lk.ct)
       IN  /\ api_timestamps' = [api_timestamps EXCEPT ![lk.i] = ts]
           /\ IF ~RateLimited(ts, api.max_per_minute)
              THEN lk' = [lk EXCEPT !.pc = "chain", !.i = 1, !.ct = 0]
              ELSE IF lk.i < NumApis
              THEN lk' = [lk EXCEPT !.i = lk.i + 1]
              ELSE lk' = [lk EXCEPT !.pc = "enqueue", !.i = 0, !.ct = 0]
    /\ UNCHANGED << word_dict, store, request_timestamps, translation_queue,
                    pending_translations, now, wk, ed, dictionary, hist, ln >>

\* queue_translation(word, update_cache)
LookupEnqueue ==
    /\ lk.pc = "enqueue"
    /\ translation_queue' =
           IF lk.word = "" THEN translation_queue
           ELSE Append(translation_queue, lk.word)
    /\ lk' = [lk EXCEPT !.pc = "mark",
                        !.enq = IF lk.word = "" THEN lk.enq ELSE lk.enq + 1]
    /\ UNCHANGED << word_dict, store, api_timestamps, request_timestamps,
                    pending_translations, now, wk, ed, dictionary, hist, ln >>

\* the deferral forgetting to mark the word
LookupMarkForgotten ==
    /\ lk.pc = "mark"
    /\ lk' = Return(Translating, "defer")
    /\ deferred' = deferred \cup {lk.word}
    /\ UNCHANGED << shared, now, wk, ed, dictionary, admitted, served, translated,
                    answered, sentinel, ln, refreshed >>

\* pending_translations[word] = True; return "[translating...]"
LookupMark ==
    /\ lk.pc = "mark"
    /\ pending_translations' = pending_translations \cup {lk.word}
    /\ lk' = Return(Translating, "defer")
    /\ deferred' = deferred \cup {lk.word}
    /\ UNCHANGED << word_dict, store, api_timestamps, request_timestamps,
                    translation_queue, now, wk, ed, dictionary, admitted, served,
                    translated, answered, sentinel, ln, refreshed >>

\* _perform_online_translation, as lookup_word runs it: the rate check of
\* provider i under its lock
LookupAdmit ==
    /\ lk.pc = "chain"
    /\ LET api == translation_apis[lk.i]
           ts == Prune(api_timestamps[lk.i], now)
       IN  /\ api_timestamps' =
                  [api_timestamps EXCEPT
                       ![lk.i] = Admit(api_timestamps[lk.i], now, api.max_per_minute)]
           /\ IF RateLimited(ts, api.max_per_minute)
              THEN /\ admitted' = admitted
                   /\ IF lk.i < NumApis
                      THEN lk' = [lk EXCEPT !.i = lk.i + 1]
                      ELSE lk' = Return(NoTranslationFound, "sync")
              ELSE /\ admitted' = [admitted EXCEPT ![lk.i] = Append(@, now)]
                   /\ lk' = [lk EXCEPT !.pc = "call", !.stamps = lk.stamps + 1,
                                 !.tried = Append(lk.tried, lk.i)]
    /\ UNCHANGED << word_dict, store, request_timestamps, translation_queue,
                    pending_translations, now, wk, ed, dictionary, deferred, served,
                    translated, answered, sentinel, ln, refreshed >>

\* what one provider call can do: answer a translation, answer the word it
\* was given, answer the empty string, answer nothing, raise
Outcomes == {"text", "echo", "empty", "none", "raise"}

\* the value _translate_<provider>(arg) hands to the chain; an exception
\* leaves translation unset and is caught by the chain
ProviderReturn(outcome, arg) ==
    CASE outcome = "text" -> Str(ProviderText)
      [] outcome = "echo" -> Str(arg)
      [] outcome = "empty" -> Str("")
      [] OTHER -> NoneValue

\* the provider call, with a failing chain cached as a negative entry
LookupProviderCallNegative ==
    /\ lk.pc = "call"
    /\ \E outcome \in Outcomes :
       LET t == ProviderReturn(outcome, word_lower(lk.word)) IN
       /\ answered' = (answered \/ Truthy(t))
       /\ IF Truthy(t)
          THEN /\ lk' = [lk EXCEPT !.pc = "save", !.calls = lk.calls + 1,
                          !.tr = DictApi(t.text, translation_apis[lk.i].name)]
               /\ word_dict' = word_dict
          ELSE IF lk.i < NumApis
          THEN /\ lk' = [lk EXCEPT !.pc = "chain", !.i = lk.i + 1,
                          !.calls = lk.calls + 1]
               /\ word_dict' = word_dict
          ELSE /\ lk' = [Return(NoTranslationFound, "sync") EXCEPT
                          !.calls = lk.calls + 1, !.wrote = {"cache"}]
               /\ word_dict' = Put(word_dict, word_lower(lk.word),
                                   DictSource(NoTranslationFound, "none"))
    /\ UNCHANGED << store, api_timestamps, request_timestamps,
                    translation_queue, pending_translations, now, wk, ed, dictionary,
                    admitted, deferred, served, translated, sentinel, ln, refreshed >>

\* the call of provider i and what lookup_word does with its answer
LookupProviderCall ==
    /\ lk.pc = "call"
    /\ \E outcome \in Outcomes :
       LET t == ProviderReturn(outcome, word_lower(lk.word)) IN
       /\ answered' = (answered \/ Truthy(t))
       /\ IF Truthy(t)
          THEN lk' = [lk EXCEPT !.pc = "save", !.calls = lk.calls + 1,
                          !.tr = DictApi(t.text, translation_apis[lk.i].name)]
          ELSE IF lk.i < NumApis
          THEN lk' = [lk EXCEPT !.pc = "chain", !.i = lk.i + 1,
                          !.calls = lk.calls + 1]
          ELSE lk' = [Return(NoTranslationFound, "sync") EXCEPT
                          !.calls = lk.calls + 1]
    /\ UNCHANGED << shared, now, wk, ed, dictionary, admitted, deferred, served,
                    translated, sentinel, ln, refreshed >>

\* the failing store write running into the except handler of lookup_word
LookupSaveFailsRaises ==
    /\ lk.pc = "save"
    /\ word_dict' = Put(word_dict, word_lower(lk.word), ErrorEntry)
    /\ lk' = [Return(ErrorText, "error") EXCEPT !.wrote = {"cache"}]
    /\ UNCHANGED << store, api_timestamps, request_timestamps,
                    translation_queue, pending_translations, now, wk, ed, dictionary,
                    hist, ln >>

\* _get_db_connection, the INSERT OR REPLACE or the commit raises: the
\* inner except logs it and lookup_word goes on to its cache write
LookupSaveFails ==
    /\ lk.pc = "save"
    /\ lk' = [lk EXCEPT !.pc = "cachew"]
    /\ UNCHANGED << shared, now, wk, ed, dictionary, hist, ln >>

\* INSERT OR REPLACE of the provider's answer
LookupSave ==
    /\ lk.pc = "save"
    /\ store' = InsertOrReplace(store, word_lower(lk.word), lk.tr.text)
    /\ lk' = [lk EXCEPT !.pc = "cachew", !.wrote = lk.wrote \cup {"store"}]
    /\ UNCHANGED << word_dict, api_timestamps, request_timestamps,
                    translation_queue, pending_translations, now, wk, ed, dictionary,
                    hist, ln >>

\* word_dict[word_lower] = {"text": translation, "source": api_used}
LookupCacheWrite ==
    /\ lk.pc = "cachew"
    /\ word_dict' = Put(word_dict, word_lower(lk.word), ProviderEntry(lk.tr))
    /\ lk' = [Return(lk.tr.text, "sync") EXCEPT !.wrote = lk.wrote \cup {"cache"}]
    /\ UNCHANGED << store, api_timestamps, request_timestamps,
                    translation_queue, pending_translations, now, wk, ed, dictionary,
                    hist, ln >>

\* the caller takes the result
LookupReturn ==
    /\ lk.pc = "done"
    /\ lk' = IdleLookup
    /\ UNCHANGED << shared, now, wk, ed, dictionary, hist, ln >>

-----------------------------------------------------------------------------
(* word_for_word_line *)

\* the letters of the texts of the model
LowerLetters == {"a", "c", "d", "e", "f", "g", "h", "i", "l", "n", "o", "p",
                 "r", "s", "t", "u"}
UpperLetters == {"C", "D", "G", "H"}

\* \w, \s and [^\w\s] of the regular expressions
IsWordChar(c) == c \in LowerLetters \cup UpperLetters
IsSpace(c) == c = " "
IsPunct(c) == ~IsWordChar(c) /\ ~IsSpace(c)

\* str.isupper, str.lower and str.upper on one character
IsUpperChar(c) == c \in UpperLetters
LowerChar(c) == CASE c = "C" -> "c" [] c = "D" -> "d" [] c = "G" -> "g"
                  [] c = "H" -> "h" [] OTHER -> c
UpperChar(c) == CASE c = "c" -> "C" [] c = "d" -> "D" [] c = "g" -> "G"
                  [] c = "h" -> "H" [] OTHER -> c

\* clean_word.lower() on a sequence of characters
LowerChars(cs) == [j \in 1..Len(cs) |-> LowerChar(cs[j])]

\* the string that a sequence of characters spells
Text(cs) ==
    CASE cs = << "g", "a", "t", "o" >> -> "gato"
      [] cs = << "G", "a", "t", "o" >> -> "Gato"
      [] cs = << "p", "e", "r", "r", "o" >> -> "perro"
      [] cs = << "g", "a", "t", "o", "-", "p", "e", "r", "r", "o" >> -> "gato-perro"
      [] cs = <<>> -> ""
      [] OTHER -> "?"

\* the characters of the strings lookup_word returns
Chars(t) ==
    CASE t = "dog" -> << "d", "o", "g" >>
      [] t = "cat" -> << "c", "a", "t" >>
      [] t = "hound" -> << "h", "o", "u", "n", "d" >>
      [] t = "gato" -> << "g", "a", "t", "o" >>
      [] t = "Gato" -> << "G", "a", "t", "o" >>
      [] t = "perro" -> << "p", "e", "r", "r", "o" >>
      [] t = "gato-perro" -> << "g", "a", "t", "o", "-", "p", "e", "r", "r", "o" >>
      [] t = "[error]" -> << "[", "e", "r", "r", "o", "r", "]" >>
      [] t = "[translating...]" ->
             << "[", "t", "r", "a", "n", "s", "l", "a", "t", "i", "n", "g",
                ".", ".", ".", "]" >>
      [] t = "[no translation found]" ->
             << "[", "n", "o", " ", "t", "r", "a", "n", "s", "l", "a", "t",
                "i", "o", "n", " ", "f", "o", "u", "n", "d", "]" >>
      [] OTHER -> <<>>

\* the lines passed to word_for_word_line: "¡Gato, gato!" and "¡! Gato"
Lines ==
    { << "¡", "G", "a", "t", "o", ",", " ", "g", "a", "t", "o", "!" >>,
      << "¡", "!", " ", "G", "a", "t", "o" >> }

\* one short line: "¡! Gato,"
ShortLines ==
    { << "¡", "!", " ", "G", "a", "t", "o", "," >> }

\* a line whose first token has punctuation between its letters:
\* "gato-perro ?"
InnerLines ==
    { << "g", "a", "t", "o", "-", "p", "e", "r", "r", "o", " ", "?" >> }

\* the first whitespace of a line, or one past its end
FirstSpace(line) ==
    IF \E j \in 1..Len(line) : IsSpace(line[j])
    THEN CHOOSE j \in 1..Len(line) :
             IsSpace(line[j]) /\ \A m \in 1..(j - 1) : ~IsSpace(line[m])
    ELSE Len(line) + 1

\* line.split()
RECURSIVE split(_)
split(line) ==
    IF line = <<>> THEN <<>>
    ELSE IF IsSpace(Head(line)) THEN split(Tail(line))
    ELSE << SubSeq(line, 1, FirstSpace(line) - 1) >>
             \o split(SubSeq(line, FirstSpace(line), Len(line)))

\* the length of the longest run of punctuation at the start of w: group 1
\* of ^([^\w\s]*)(.*)
LeadingPunct(w) ==
    CHOOSE n \in 0..Len(w) :
        /\ \A j \in 1..n : IsPunct(w[j])
        /\ n < Len(w) => ~IsPunct(w[n + 1])

\* the length of the longest run of punctuation at the end of w: group 2
\* of (.*?)([^\w\s]*)$
TrailingPunct(w) ==
    CHOOSE n \in 0..Len(w) :
        /\ \A j \in (Len(w) - n + 1)..Len(w) : IsPunct(w[j])
        /\ n < Len(w) => ~IsPunct(w[Len(w) - n])

\* prefix, suffix and clean_word of one word of the line
Segment(word) ==
    LET prefix == SubSeq(word, 1, LeadingPunct(word))
        remaining == SubSeq(word, Len(prefix) + 1, Len(word))
        target == IF prefix = <<>> THEN word ELSE remaining
        suffix == SubSeq(target, Len(target) - TrailingPunct(target) + 1,
                         Len(target))
    IN  [prefix |-> prefix, suffix |-> suffix,
         clean_word |-> IF prefix # <<>> \/ suffix # <<>>
                        THEN SubSeq(word, Len(prefix) + 1,
                                    Len(word) - Len(suffix))
                        ELSE word]

\* translation[0].upper() + translation[1:]
Capitalize(cs) == IF cs = <<>> THEN cs ELSE << UpperChar(Head(cs)) >> \o Tail(cs)

\* an appended word that loses its punctuation when nothing was found
EmitCore(word, t) ==
    LET sg == Segment(word)
        is_capitalized == IsUpperChar(sg.clean_word[1])
    IN  IF t \in {NoTranslationFound, LookupError}
        THEN sg.clean_word
        ELSE sg.prefix
             \o (IF is_capitalized /\ t # "" THEN Capitalize(Chars(t))
                 ELSE Chars(t))
             \o sg.suffix

\* what word_for_word_line appends for a word whose lookup returned t
Emit(word, t) ==
    LET sg == Segment(word)
        is_capitalized == IsUpperChar(sg.clean_word[1])
    IN  IF t \in {NoTranslationFound, LookupError}
        THEN sg.prefix \o sg.clean_word \o sg.suffix
        ELSE sg.prefix
             \o (IF is_capitalized /\ t # "" THEN Capitalize(Chars(t))
                 ELSE Chars(t))
             \o sg.suffix

\* ' '.join(translated_words)
RECURSIVE join(_)
join(ws) ==
    IF ws = <<>> THEN <<>>
    ELSE IF Len(ws) = 1 THEN ws[1]
    ELSE ws[1] \o << " " >> \o join(Tail(ws))

\* word_for_word_line(line) is called; words = line.split()
LineCall(line) ==
    /\ ln.pc \in {"idle", "done"}
    /\ lk.pc = "idle"
    /\ ln' = [IdleLine EXCEPT !.pc = "loop", !.words = split(line), !.k = 1,
                              !.cache = word_dict,
                              !.quiet = (wk = IdleWorker /\ translation_queue = <<>>)]
    /\ UNCHANGED << shared, now, lk, wk, ed, dictionary, hist >>

\* a word without a clean word is appended as it is
LineSkip ==
    /\ ln.pc = "loop"
    /\ ln.k <= Len(ln.words)
    /\ Segment(ln.words[ln.k]).clean_word = <<>>
    /\ ln' = [ln EXCEPT !.k = ln.k + 1,
                        !.translated_words = Append(@, ln.words[ln.k])]
    /\ UNCHANGED << shared, now, lk, wk, ed, dictionary, hist >>

\* translation = self.lookup_word(clean_word.lower()): the call
LineLookup ==
    /\ ln.pc = "loop"
    /\ ln.k <= Len(ln.words)
    /\ Segment(ln.words[ln.k]).clean_word # <<>>
    /\ LookupCall(Text(LowerChars(Segment(ln.words[ln.k]).clean_word)))

\* lookup_word has returned; the word is appended
LineEmit ==
    /\ ln.pc = "loop"
    /\ lk.pc = "done"
    /\ ln' = [ln EXCEPT !.k = ln.k + 1,
                        !.translated_words =
                            Append(@, Emit(ln.words[ln.k], lk.result)),
                        !.lookups =
                            Append(@, [word |-> lk.word, result |-> lk.result,
                                       calls |-> lk.calls])]
    /\ lk' = IdleLookup
    /\ UNCHANGED << shared, now, wk, ed, dictionary, hist >>

\* the loop is over: return ' '.join(translated_words)
LineReturn ==
    /\ ln.pc = "loop"
    /\ ln.k > Len(ln.words)
    /\ ln' = [ln EXCEPT !.pc = "done", !.result = join(ln.translated_words)]
    /\ UNCHANGED << shared, now, lk, wk, ed, dictionary, hist >>

-----------------------------------------------------------------------------
(* _process_translation_queue *)

\* the worker taking the newest item of the queue
WorkerGetNewest ==
    /\ wk.pc = "get"
    /\ translation_queue # <<>>
    /\ translation_queue' = SubSeq(translation_queue, 1, Len(translation_queue) - 1)
    /\ IF translation_queue[Len(translation_queue)] = NoneRequest
       THEN /\ wk' = wk
            /\ sentinel' = "taken"
       ELSE /\ wk' = [IdleWorker EXCEPT !.pc = "rate",
                          !.word = translation_queue[Len(translation_queue)]]
            /\ sentinel' = sentinel
    /\ UNCHANGED << word_dict, store, api_timestamps, request_timestamps,
                    pending_translations, now, lk, ed, dictionary, admitted, deferred,
                    served, translated, answered, ln, refreshed >>

\* translation_queue.get(); "if not request: continue"
WorkerGet ==
    /\ wk.pc = "get"
    /\ translation_queue # <<>>
    /\ translation_queue' = Tail(translation_queue)
    /\ IF Head(translation_queue) = NoneRequest
       THEN /\ wk' = wk
            /\ sentinel' = "taken"
       ELSE /\ wk' = [IdleWorker EXCEPT !.pc = "rate",
                          !.word = Head(translation_queue)]
            /\ sentinel' = sentinel
    /\ UNCHANGED << word_dict, store, api_timestamps, request_timestamps,
                    pending_translations, now, lk, ed, dictionary, admitted, deferred,
                    served, translated, answered, ln, refreshed >>

\* the worker sleeping a whole window when the global window is full
WorkerRateFullWindow ==
    /\ wk.pc = "rate"
    /\ LET ts == Prune(request_timestamps, now)
       IN  IF RateLimited(ts, max_requests_per_minute)
              /\ Window - (now - ts[1]) > 0
           THEN /\ request_timestamps' = ts
                /\ wk' = [wk EXCEPT !.pc = "sleep", !.wake = now + Window]
           ELSE /\ request_timestamps' = Append(ts, now)
                /\ wk' = [wk EXCEPT !.pc = "dbcheck", !.gstamps = wk.gstamps + 1]
    /\ UNCHANGED << word_dict, store, api_timestamps, translation_queue,
                    pending_translations, now, lk, ed, dictionary, hist, ln >>

\* the global rate window, under queue_lock, up to time.sleep
WorkerRate ==
    /\ wk.pc = "rate"
    /\ LET ts == Prune(request_timestamps, now)
       IN  IF RateLimited(ts, max_requests_per_minute)
              /\ Window - (now - ts[1]) > 0
           THEN /\ request_timestamps' = ts
                /\ wk' = [wk EXCEPT !.pc = "sleep",
                              !.wake = now + (Window - (now - ts[1]))]
           ELSE /\ request_timestamps' = Append(ts, now)
                /\ wk' = [wk EXCEPT !.pc = "dbcheck", !.gstamps = wk.gstamps + 1]
    /\ UNCHANGED << word_dict, store, api_timestamps, translation_queue,
                    pending_translations, now, lk, ed, dictionary, hist, ln >>

\* time.sleep(sleep_time) is over; request_timestamps.append(time.time())
WorkerWake ==
    /\ wk.pc = "sleep"
    /\ now >= wk.wake
    /\ request_timestamps' = Append(request_timestamps, now)
    /\ wk' = [wk EXCEPT !.pc = "dbcheck", !.wake = 0,
                        !.gstamps = wk.gstamps + 1]
    /\ UNCHANGED << word_dict, store, api_timestamps, translation_queue,
                    pending_translations, now, lk, ed, dictionary, hist, ln >>

\* the worker going to the providers whatever the store holds
WorkerDbCheckIgnored ==
    /\ wk.pc = "dbcheck"
    /\ wk' = [wk EXCEPT !.pc = "chain", !.i = 1]
    /\ UNCHANGED << shared, now, lk, ed, dictionary, hist, ln >>

\* "Check database first"
WorkerDbCheck ==
    /\ wk.pc = "dbcheck"
    /\ LET r == Select(store, lower(wk.word))
       IN  IF Truthy(r)
           THEN wk' = [wk EXCEPT !.pc = "callback", !.tr = r]
           ELSE wk' = [wk EXCEPT !.pc = "chain", !.i = 1]
    /\ UNCHANGED << shared, now, lk, ed, dictionary, hist, ln >>

\* the chain giving up at the first provider that is at its limit
WorkerAdmitGivesUp ==
    /\ wk.pc = "chain"
    /\ LET api == translation_apis[wk.i]
           ts == Prune(api_timestamps[wk.i], now)
       IN  /\ api_timestamps' =
                  [api_timestamps EXCEPT
                       ![wk.i] = Admit(api_timestamps[wk.i], now, api.max_per_minute)]
           /\ IF RateLimited(ts, api.max_per_minute)
              THEN /\ admitted' = admitted
                   /\ wk' = [wk EXCEPT !.pc = "callback", !.tr = NoneValue]
              ELSE /\ admitted' = [admitted EXCEPT ![wk.i] = Append(@, now)]
                   /\ wk' = [wk EXCEPT !.pc = "call",
                                 !.tried = Append(wk.tried, wk.i)]
    /\ UNCHANGED << word_dict, store, request_timestamps, translation_queue,
                    pending_translations, now, lk, ed, dictionary, deferred, served,
                    translated, answered, sentinel, ln, refreshed >>

\* _perform_online_translation, as the worker runs it: the rate check of
\* provider i under its lock
WorkerAdmit ==
    /\ wk.pc = "chain"
    /\ LET api == translation_apis[wk.i]
           ts == Prune(api_timestamps[wk.i], now)
       IN  /\ api_timestamps' =
                  [api_timestamps EXCEPT
                       ![wk.i] = Admit(api_timestamps[wk.i], now, api.max_per_minute)]
           /\ IF RateLimited(ts, api.max_per_minute)
              THEN /\ admitted' = admitted
                   /\ IF wk.i < NumApis
                      THEN wk' = [wk EXCEPT !.i = wk.i + 1]
                      ELSE wk' = [wk EXCEPT !.pc = "callback", !.tr = NoneValue]
              ELSE /\ admitted' = [admitted EXCEPT ![wk.i] = Append(@, now)]
                   /\ wk' = [wk EXCEPT !.pc = "call",
                                 !.tried = Append(wk.tried, wk.i)]
    /\ UNCHANGED << word_dict, store, request_timestamps, translation_queue,
                    pending_translations, now, lk, ed, dictionary, deferred, served,
                    translated, answered, sentinel, ln, refreshed >>

\* the chain tagging an answer with the first configured provider
WorkerProviderCallMistagged ==
    /\ wk.pc = "call"
    /\ \E outcome \in Outcomes :
       LET t == ProviderReturn(outcome, wk.word) IN
       /\ answered' = (answered \/ Truthy(t))
       /\ IF Truthy(t)
          THEN wk' = [wk EXCEPT !.pc = "saveselect",
                          !.tr = DictApi(t.text, translation_apis[1].name)]
          ELSE IF wk.i < NumApis
          THEN wk' = [wk EXCEPT !.pc = "chain", !.i = wk.i + 1]
          ELSE wk' = [wk EXCEPT !.pc = "callback", !.tr = NoneValue]
    /\ UNCHANGED << shared, now, lk, ed, dictionary, admitted, deferred, served,
                    translated, sentinel, ln, refreshed >>

\* the call of provider i and what the worker does with its answer
WorkerProviderCall ==
    /\ wk.pc = "call"
    /\ \E outcome \in Outcomes :
       LET t == ProviderReturn(outcome, wk.word) IN
       /\ answered' = (answered \/ Truthy(t))
       /\ IF Truthy(t)
          THEN wk' = [wk EXCEPT !.pc = "saveselect",
                          !.tr = DictApi(t.text, translation_apis[wk.i].name)]
          ELSE IF wk.i < NumApis
          THEN wk' = [wk EXCEPT !.pc = "chain", !.i = wk.i + 1]
          ELSE wk' = [wk EXCEPT !.pc = "callback", !.tr = NoneValue]
    /\ UNCHANGED << shared, now, lk, ed, dictionary, admitted, deferred, served,
                    translated, sentinel, ln, refreshed >>

\* _save_translation_to_db: "Check if word already exists"
WorkerSaveSelect ==
    /\ wk.pc = "saveselect"
    /\ IF Select(store, lower(wk.word)) = NoneValue
       THEN wk' = [wk EXCEPT !.pc = "saveinsert"]
       ELSE wk' = [wk EXCEPT !.pc = "callback"]
    /\ UNCHANGED << shared, now, lk, ed, dictionary, hist, ln >>

\* _save_translation_to_db: INSERT OR REPLACE
WorkerSaveInsert ==
    /\ wk.pc = "saveinsert"
    /\ store' = InsertOrReplace(store, lower(wk.word), wk.tr.text)
    /\ wk' = [wk EXCEPT !.pc = "callback"]
    /\ UNCHANGED << word_dict, api_timestamps, request_timestamps,
                    translation_queue, pending_translations, now, lk, ed, dictionary,
                    hist, ln >>

\* callback(word, translation or "[no translation found]"), which is
\* update_cache up to its cache write
WorkerCallback ==
    /\ wk.pc = "callback"
    /\ word_dict' = Put(word_dict, lower(wk.word),
                        UpdateCacheEntry(CallbackArg(wk.tr)))
    /\ wk' = [wk EXCEPT !.pc = "check", !.cb = wk.cb + 1]
    /\ UNCHANGED << store, api_timestamps, request_timestamps,
                    translation_queue, pending_translations, now, lk, ed, dictionary,
                    hist, ln >>

\* the worker running a request again when its chain has failed
WorkerCheckPendingRetry ==
    /\ wk.pc = "check"
    /\ LET completed_words ==
               {w \in pending_translations : lower(w) \in DOMAIN word_dict}
           has_updates == completed_words # {}
       IN  /\ pending_translations' = pending_translations \ completed_words
           /\ refreshed' = IF has_updates THEN refreshed \cup DOMAIN word_dict
                           ELSE refreshed
    /\ served' = served \cup {wk.word}
    /\ translated' = IF Truthy(wk.tr) THEN translated \cup {wk.word}
                     ELSE translated
    /\ wk' = IF Truthy(wk.tr) THEN IdleWorker
             ELSE [wk EXCEPT !.pc = "dbcheck", !.i = 0]
    /\ UNCHANGED << word_dict, store, api_timestamps, request_timestamps,
                    translation_queue, now, lk, ed, dictionary, admitted, deferred,
                    answered, sentinel, ln >>

\* _check_pending_translations with a refresh callback registered, then
\* task_done()
WorkerCheckPending ==
    /\ wk.pc = "check"
    /\ LET completed_words ==
               {w \in pending_translations : lower(w) \in DOMAIN word_dict}
           has_updates == completed_words # {}
       IN  /\ pending_translations' = pending_translations \ completed_words
           /\ refreshed' = IF has_updates THEN refreshed \cup DOMAIN word_dict
                           ELSE refreshed
    /\ served' = served \cup {wk.word}
    /\ translated' = IF Truthy(wk.tr) THEN translated \cup {wk.word}
                     ELSE translated
    /\ wk' = IdleWorker
    /\ UNCHANGED << word_dict, store, api_timestamps, request_timestamps,
                    translation_queue, now, lk, ed, dictionary, admitted, deferred,
                    answered, sentinel, ln >>

\* the listener raises after its cache write: the iteration of
\* pending_translations fails because lookup_word is inserting into it, or
\* the refresh callback raises.  The worker logs it and goes on to
\* task_done()
WorkerListenerRaises ==
    /\ wk.pc = "check"
    /\ LET completed_words ==
               {w \in pending_translations : lower(w) \in DOMAIN word_dict}
           has_updates == completed_words # {}
       IN  \/ /\ lk.pc = "mark"
              /\ pending_translations' = pending_translations
              /\ refreshed' = refreshed
           \/ /\ has_updates
              /\ pending_translations' = pending_translations \ completed_words
              /\ refreshed' = refreshed \cup DOMAIN word_dict
    /\ served' = served \cup {wk.word}
    /\ translated' = IF Truthy(wk.tr) THEN translated \cup {wk.word}
                     ELSE translated
    /\ wk' = IdleWorker
    /\ UNCHANGED << word_dict, store, api_timestamps, request_timestamps,
                    translation_queue, now, lk, ed, dictionary, admitted, deferred,
                    answered, sentinel, ln >>

-----------------------------------------------------------------------------
(* RSSApp.add_update_translation *)

\* "Check if word exists"
EditSelect(k) ==
    /\ ed.pc = "idle"
    /\ ed' = [ed EXCEPT !.pc = "write", !.word = k,
                        !.exists = (k \in DOMAIN store)]
    /\ UNCHANGED << shared, now, lk, wk, hist, ln, dictionary >>

\* UPDATE the row, or INSERT OR IGNORE a new one
EditWrite ==
    /\ ed.pc = "write"
    /\ store' = IF ed.exists THEN Update(store, ed.word, ManualText)
                ELSE InsertOrIgnore(store, ed.word, ManualText)
    /\ ed' = [ed EXCEPT !.pc = "cache"]
    /\ UNCHANGED << word_dict, api_timestamps, request_timestamps,
                    translation_queue, pending_translations, now, lk, wk,
                    hist, ln, dictionary >>

\* self.translator.word_dict[word.lower()] = translation
EditCache ==
    /\ ed.pc = "cache"
    /\ word_dict' = Put(word_dict, ed.word, Str(ManualText))
    /\ ed' = IdleEditor
    /\ UNCHANGED << store, api_timestamps, request_timestamps,
                    translation_queue, pending_translations, now, lk, wk,
                    hist, ln, dictionary >>

-----------------------------------------------------------------------------
(* __del__ and the clock *)

\* self.translation_queue.put(None)
Shutdown ==
    /\ sentinel = "no"
    /\ translation_queue' = Append(translation_queue, NoneRequest)
    /\ sentinel' = "queued"
    /\ UNCHANGED << word_dict, store, api_timestamps, request_timestamps,
                    pending_translations, now, lk, wk, ed, dictionary, admitted,
                    deferred, served, translated, answered, ln, refreshed >>

\* time passes
Tick ==
    /\ now < MaxTicks * TickLen
    /\ now' = now + TickLen
    /\ UNCHANGED << shared, lk, wk, ed, dictionary, hist, ln >>

\* queue_translation(word, update_cache), called while the clock of the
\* model runs
queue_translation(w) ==
    /\ w # ""
    /\ Len(translation_queue) < MaxQueue
    /\ now <= MaxTicks * TickLen
    /\ translation_queue' = Append(translation_queue, w)
    /\ UNCHANGED << word_dict, store, api_timestamps, request_timestamps,
                    pending_translations, now, lk, wk, ed, dictionary, hist, ln >>

\* time passes, and goes on passing while the worker sleeps
TickLive ==
    /\ \/ now < MaxTicks * TickLen
       \/ wk.pc = "sleep" /\ now < wk.wake
    /\ now' = now + TickLen
    /\ UNCHANGED << shared, lk, wk, ed, dictionary, hist, ln >>

-----------------------------------------------------------------------------

\* the steps inside lookup_word
LookupSteps ==
    \/ LookupStoreRead
    \/ LookupPopulate
    \/ LookupProbe
    \/ LookupEnqueue
    \/ LookupMark
    \/ LookupAdmit
    \/ LookupProviderCall
    \/ LookupSave
    \/ LookupCacheWrite

Lookup ==
    \/ \E w \in InputWords : LookupCall(w)
    \/ LookupSteps
    \/ LookupReturn

Worker ==
    \/ WorkerGet
    \/ WorkerRate
    \/ WorkerWake
    \/ WorkerDbCheck
    \/ WorkerAdmit
    \/ WorkerProviderCall
    \/ WorkerSaveSelect
    \/ WorkerSaveInsert
    \/ WorkerCallback
    \/ WorkerCheckPending

Editor ==
    \/ \E k \in Keys : EditSelect(k)
    \/ EditWrite
    \/ EditCache

\* lookups from a background thread and the worker
Next == Lookup \/ Worker \/ Tick

Spec == Init /\ [][Next]_vars

\* lookups and the worker while the database editor is in use
NextEdit == Next \/ Editor

SpecEdit == Init /\ [][NextEdit]_vars

Line ==
    \/ \E line \in Lines : LineCall(line)
    \/ LineSkip
    \/ LineLookup
    \/ LineEmit
    \/ LineReturn

\* lines translated on a background thread, and the worker
NextLine == Line \/ LookupSteps \/ Worker \/ Tick

SpecLine == Init /\ [][NextLine]_vars

ShortLine ==
    \/ \E line \in ShortLines : LineCall(line)
    \/ LineSkip
    \/ LineLookup
    \/ LineEmit
    \/ LineReturn

\* short lines translated on a background thread, and the worker
NextShortLine == ShortLine \/ LookupSteps \/ Worker \/ Tick

SpecShortLine == Init /\ [][NextShortLine]_vars

\* the short lines handed over during the first tick of the clock; their
\* lookups, the worker and the clock run on after it
EarlyLine ==
    \/ now = 0 /\ \E line \in ShortLines : LineCall(line)
    \/ LineSkip
    \/ LineLookup
    \/ LineEmit
    \/ LineReturn

NextEarlyLine == EarlyLine \/ LookupSteps \/ Worker \/ Tick

SpecEarlyLine == Init /\ [][NextEarlyLine]_vars

\* the short lines with a store whose reads can fail
NextFaultLine == NextShortLine \/ LookupStoreReadFails

SpecFaultLine == Init /\ [][NextFaultLine]_vars

\* a line with punctuation inside a word, translated on a background thread
InnerLine ==
    \/ \E line \in InnerLines : LineCall(line)
    \/ LineSkip
    \/ LineLookup
    \/ LineEmit
    \/ LineReturn

NextInnerLine == InnerLine \/ LookupSteps \/ Worker \/ Tick

SpecInnerLine == Init /\ [][NextInnerLine]_vars

\* lookups of blank words next to those of InputWords
LookupBlank == \E w \in BlankWords : LookupCall(w)

NextBlank == Next \/ LookupBlank

SpecBlank == Init /\ [][NextBlank]_vars

\* lookups of words that are not trimmed
LookupRaw == \E w \in RawWords : LookupCall(w)

NextRaw == LookupRaw \/ LookupSteps \/ LookupReturn \/ Worker \/ Tick

SpecRaw == Init /\ [][NextRaw]_vars

\* the worker with requests put into its queue, the worker thread being
\* scheduled again and again and the clock not stopping under a sleeping
\* worker
NextLive ==
    \/ \E w \in InputWords : queue_translation(w)
    \/ Worker
    \/ TickLive

SpecLive == Init /\ [][NextLive]_vars /\ WF_vars(Worker) /\ WF_vars(TickLive)

\* lookups and the worker with a listener that can raise
NextListener == Next \/ WorkerListenerRaises

SpecListener == Init /\ [][NextListener]_vars

\* lookups and the worker with a store whose reads and writes can fail
NextStoreFault == Next \/ LookupStoreReadFails \/ LookupSaveFails

SpecStoreFault == Init /\ [][NextStoreFault]_vars

\* lookups and the worker while the service is being deleted
NextShutdown == Next \/ Shutdown

SpecShutdown == Init /\ [][NextShutdown]_vars

-----------------------------------------------------------------------------
(* Properties *)

\* the entry of the memory cache for word w
Key(w) == word_lower(w)

\* a result that is a translation text, not one of the sentinel strings
IsFound(r) == r \notin {NoTranslationFound, Translating, ErrorText, Missing}

\* a step of the thread inside lookup_word
LookupStep == lk' # lk

\* a step of the worker thread
WorkerStep == wk' # wk \/ sentinel' # sentinel

\* C1: once lookup(w) has returned the placeholder and the worker has
\* processed the request for w, a lookup(w) that starts afterwards returns
\* the translation.  Stated for the requests the worker obtained a
\* translation for (from the store or from a provider).
C1_DeferredThenFound ==
    (lk.pc = "done" /\ lk.after = "translated") => IsFound(lk.result)

\* every provider is at its limit at time t
AllLimited(t) ==
    \A j \in 1..NumApis :
        RateLimited(Prune(api_timestamps[j], t), translation_apis[j].max_per_minute)

\* C2: when the probe of lookup(w) ends with every provider at its limit
\* (w missed the cache and the store), lookup enqueues exactly one request
\* for w, marks w pending and returns the placeholder; it calls no provider
\* and writes neither the store nor the cache.
C2_Deferral ==
    [][ /\ (lk.pc = "probe" /\ LookupStep /\ lk.i = NumApis /\ AllLimited(lk.ct))
            => /\ lk'.pc = "enqueue"
               /\ UNCHANGED << word_dict, store, translation_queue,
                               pending_translations >>
        /\ (lk.pc = "enqueue" /\ LookupStep)
            => /\ lk'.pc = "mark"
               /\ translation_queue' = Append(translation_queue, lk.word)
               /\ UNCHANGED << word_dict, store, api_timestamps >>
        /\ (lk.pc = "mark" /\ LookupStep)
            => /\ lk'.pc = "done"
               /\ lk'.result = Translating
               /\ pending_translations' = pending_translations \cup {lk.word}
               /\ lk'.calls = 0 /\ lk'.enq = 1 /\ lk'.wrote = {}
               /\ UNCHANGED << word_dict, store, api_timestamps,
                               translation_queue >>
      ]_vars

\* a lookup has just been deferred
C2_Witness ==
    /\ lk.pc = "done" /\ lk.via = "defer" /\ lk.result = Translating
    /\ lk.word \in pending_translations
    /\ translation_queue = << lk.word >>
    /\ Key(lk.word) \notin DOMAIN word_dict
    /\ Key(lk.word) \notin DOMAIN store

\* the admissions of provider i in the 60 seconds that end at instant t
AdmittedIn(i, t) ==
    {m \in 1..Len(admitted[i]) : t - Window < admitted[i][m] /\ admitted[i][m] <= t}

\* C3: in every 60-second window no provider has admitted more calls than
\* its per-minute limit, whichever of the two threads asked.
C3_RateInvariant ==
    \A i \in 1..NumApis : \A n \in 1..Len(admitted[i]) :
        Cardinality(AdmittedIn(i, admitted[i][n])) <= translation_apis[i].max_per_minute

\* a provider has admitted more calls than its limit, in different windows,
\* while its current window is full
C3_Witness ==
    \E i \in 1..NumApis :
        /\ Len(admitted[i]) > translation_apis[i].max_per_minute
        /\ Len(api_timestamps[i]) = translation_apis[i].max_per_minute

\* C4: a lookup that misses the cache and finds the word in the store
\* returns the stored translation and caches it; it calls no provider,
\* appends no timestamp and enqueues nothing.
C4_StoreHit ==
    [][ /\ (lk.pc = "store" /\ LookupStep /\ Key(lk.word) \in DOMAIN store)
            => /\ lk'.pc = "populate"
               /\ lk'.tr = Str(store[Key(lk.word)])
               /\ UNCHANGED shared
        /\ (lk.pc = "populate" /\ LookupStep)
            => /\ lk'.pc = "done"
               /\ lk'.result = lk.tr.text
               /\ Key(lk.word) \in DOMAIN word_dict'
               /\ word_dict'[Key(lk.word)].text = lk.tr.text
               /\ lk'.calls = 0 /\ lk'.stamps = 0 /\ lk'.enq = 0
               /\ UNCHANGED << store, api_timestamps, request_timestamps,
                               translation_queue, pending_translations >>
      ]_vars

\* a lookup has returned the row of the store
C4_Witness ==
    /\ lk.pc = "done" /\ lk.via = "store"
    /\ lk.result = StoredText
    /\ store[Key(lk.word)] = StoredText
    /\ word_dict[Key(lk.word)] = DictSource(StoredText, "database")

\* C5: a row the editor wrote is not overwritten by lookup or by the
\* worker.
C5_ManualProtected ==
    [][ \A k \in DOMAIN store :
            store[k] = ManualText => store'[k] = ManualText ]_vars

\* C6: the worker never leaves a negative entry in the cache.
C6_NoNegativeEntry ==
    \A k \in DOMAIN word_dict : word_dict[k].text # NoTranslationFound

C8_AllErroring ==
    (~answered /\ store = EmptyDict /\ ed = IdleEditor)
        => /\ word_dict = EmptyDict
           /\ lk.pc = "done" => lk.result = NoTranslationFound

\* C9: after the worker has dequeued the sentinel it processes no request.
C9_WorkerStops == sentinel = "taken" => wk.pc = "get"

\* C10: a lookup of a word that is in the cache returns the cached text and
\* changes nothing.
C10_CacheHitFrame ==
    [][ (lk.pc = "idle" /\ LookupStep /\ Key(lk'.word) \in DOMAIN word_dict)
            => /\ lk'.pc = "done"
               /\ lk'.result = word_dict[Key(lk'.word)].text
               /\ UNCHANGED shared ]_vars

\* C11: two consecutive lookups of the same word return the same result,
\* and the second calls no provider when the first has called one.  Stated
\* for the runs in which the worker has not acted, so that nothing but the
\* two calls touches the cache, the store and the rate windows.
C11_Idempotent ==
    (wk = IdleWorker /\ served = {}) =>
        \A j \in 1..(Len(ln.lookups) - 1) :
            ln.lookups[j].word = ln.lookups[j + 1].word =>
                /\ ln.lookups[j + 1].result = ln.lookups[j].result
                /\ ln.lookups[j].calls > 0 => ln.lookups[j + 1].calls = 0

\* the last element of a non-empty sequence
Last(s) == s[Len(s)]

\* the providers a run of the chain has admitted so far are in the
\* configured order
Ascending(s) == \A a, b \in 1..Len(s) : a < b => s[a] < s[b]

\* C12: the chain looks at the providers in the configured order, returns
\* the answer of the first provider that yields one, tagged with that
\* provider's name, and after that admits no further provider: no later
\* provider is called or gets a timestamp for that run.  Checked for the
\* chain run by lookup_word and for the chain run by the worker.
C12_FallbackOrder ==
    [][ /\ (lk.pc = "chain" /\ LookupStep)
            => \/ /\ lk'.pc = "call" /\ lk'.i = lk.i
                  /\ lk'.tried = Append(lk.tried, lk.i)
               \/ /\ lk'.pc = "chain" /\ lk'.i = lk.i + 1
                  /\ lk'.tried = lk.tried
               \/ /\ lk'.pc = "done" /\ lk.i = NumApis
                  /\ lk'.tried = lk.tried
        /\ (lk.pc = "call" /\ LookupStep /\ lk'.pc = "save")
            => /\ lk'.tr.api = translation_apis[Last(lk.tried)].name
               /\ Last(lk.tried) = lk.i
               /\ Ascending(lk.tried)
               /\ lk'.calls = Len(lk.tried)
        /\ (lk.pc \in {"save", "cachew"} /\ LookupStep)
            => /\ lk'.tried = lk.tried /\ lk'.calls = lk.calls
               /\ lk.tr.api = translation_apis[Last(lk.tried)].name
               /\ (wk' = wk => UNCHANGED api_timestamps)
        /\ (wk.pc = "chain" /\ WorkerStep)
            => \/ /\ wk'.pc = "call" /\ wk'.i = wk.i
                  /\ wk'.tried = Append(wk.tried, wk.i)
               \/ /\ wk'.pc = "chain" /\ wk'.i = wk.i + 1
                  /\ wk'.tried = wk.tried
               \/ /\ wk'.pc = "callback" /\ wk.i = NumApis
                  /\ wk'.tried = wk.tried
        /\ (wk.pc = "call" /\ WorkerStep /\ wk'.pc = "saveselect")
            => /\ wk'.tr.api = translation_apis[Last(wk.tried)].name
               /\ Last(wk.tried) = wk.i
               /\ Ascending(wk.tried)
        /\ (wk.pc \in {"saveselect", "saveinsert", "callback", "check"}
              /\ WorkerStep)
            => /\ wk'.pc # "get" => wk'.tried = wk.tried
               /\ (lk' = lk => UNCHANGED api_timestamps)
      ]_vars

\* the first provider has answered a lookup and the second provider was
\* neither called nor given a timestamp
C12_Witness ==
    /\ lk.pc = "done" /\ lk.via = "sync" /\ lk.result = ProviderText
    /\ lk.tried = << 1 >>
    /\ api_timestamps[2] = <<>>
    /\ word_dict[Key(lk.word)].source = translation_apis[1].name

\* C13: the chain never returns a translation that is empty or that equals
\* the word it was given, upper and lower case taken as equal.
C13_EchoRejected ==
    /\ lk.pc \in {"save", "cachew"}
        => /\ lk.tr.text # ""
           /\ lower(lk.tr.text) # lower(word_lower(lk.word))
    /\ wk.pc \in {"saveselect", "saveinsert"}
        => /\ wk.tr.text # ""
           /\ lower(wk.tr.text) # lower(wk.word)

\* provider i is at its limit now
LimitedNow(i) ==
    RateLimited(Prune(api_timestamps[i], now), translation_apis[i].max_per_minute)

\* C14: the chain does not raise.  A provider at its limit is skipped on
\* the spot (no time passes, it is neither called nor given a timestamp)
\* and a provider whose call raises or yields nothing is followed by the
\* next provider in the list; the chain returns None exactly when the last
\* provider has been skipped or has failed, and a translation otherwise.
\* Checked for the chain run by the worker and for the one run by
\* lookup_word, whose caller turns None into the not-found sentinel.
C14_ChainTotal ==
    [][ /\ (wk.pc = "chain" /\ WorkerStep /\ LimitedNow(wk.i))
            => /\ now' = now /\ admitted' = admitted /\ wk'.tried = wk.tried
               /\ api_timestamps'[wk.i] = Prune(api_timestamps[wk.i], now)
               /\ IF wk.i < NumApis
                  THEN wk'.pc = "chain" /\ wk'.i = wk.i + 1
                  ELSE wk'.pc = "callback" /\ wk'.tr = NoneValue
        /\ (wk.pc = "call" /\ WorkerStep)
            => \/ /\ wk'.pc = "saveselect"
                  /\ wk'.tr.type = "dict" /\ wk'.tr.text # ""
               \/ /\ wk.i < NumApis
                  /\ wk'.pc = "chain" /\ wk'.i = wk.i + 1
                  /\ wk'.tr = NoneValue
               \/ /\ wk.i = NumApis
                  /\ wk'.pc = "callback" /\ wk'.tr = NoneValue
        /\ (lk.pc = "chain" /\ LookupStep /\ LimitedNow(lk.i))
            => /\ now' = now /\ admitted' = admitted /\ lk'.tried = lk.tried
               /\ api_timestamps'[lk.i] = Prune(api_timestamps[lk.i], now)
               /\ IF lk.i < NumApis
                  THEN lk'.pc = "chain" /\ lk'.i = lk.i + 1
                  ELSE lk'.pc = "done" /\ lk'.result = NoTranslationFound
        /\ (lk.pc = "call" /\ LookupStep)
            => \/ /\ lk'.pc = "save"
                  /\ lk'.tr.type = "dict" /\ lk'.tr.text # ""
               \/ /\ lk.i < NumApis
                  /\ lk'.pc = "chain" /\ lk'.i = lk.i + 1
                  /\ lk'.tr = NoneValue
               \/ /\ lk.i = NumApis
                  /\ lk'.pc = "done" /\ lk'.result = NoTranslationFound
      ]_vars

\* a chain has skipped the first provider, called the second, got nothing
\* and returned None
C14_Witness ==
    /\ lk.pc = "done" /\ lk.via = "sync"
    /\ lk.result = NoTranslationFound
    /\ lk.tried = << 2 >>

C16_BlankInput ==
    [][ (lk.pc = "idle" /\ LookupStep /\ strip(lk'.word) = "")
            => /\ lk'.pc = "done"
               /\ lk'.result = NoTranslationFound
               /\ UNCHANGED shared ]_vars

\* the cache key that word_for_word_line looks up for a word of the line
CoreKey(word) == Text(LowerChars(Segment(word).clean_word))

\* prefix + translation + suffix, the translation capitalized when the
\* core is
Rendered(word, t) ==
    Segment(word).prefix
    \o (IF IsUpperChar(Segment(word).clean_word[1]) THEN Capitalize(Chars(t))
        ELSE Chars(t))
    \o Segment(word).suffix

\* C17: for a line whose words are all punctuation + core + punctuation
\* with the lower-cased core in the cache when the line is started, mapped
\* to a translation and not to a sentinel string (and the worker idle with
\* an empty queue), word_for_word_line returns the
\* words in order, each as prefix + cached translation + suffix, the
\* translation capitalized exactly when the core is.
C17_LineRoundTrip ==
    ( /\ ln.pc = "done"
      /\ ln.quiet
      /\ \A k \in 1..Len(ln.words) :
            /\ Segment(ln.words[k]).clean_word # <<>>
            /\ \A j \in 1..Len(Segment(ln.words[k]).clean_word) :
                   IsWordChar(Segment(ln.words[k]).clean_word[j])
            /\ CoreKey(ln.words[k]) \in DOMAIN ln.cache
            /\ IsFound(ln.cache[CoreKey(ln.words[k])].text) )
    => /\ ln.translated_words =
              [k \in 1..Len(ln.words) |->
                  Rendered(ln.words[k], ln.cache[CoreKey(ln.words[k])].text)]
       /\ ln.result = join(ln.translated_words)

\* C18: the worker takes the items of the queue in the order they were
\* put: every change of the queue is a put at its tail or the worker
\* taking its head, and the request the worker then processes is that
\* head.  The worker takes an item only when it holds no request, so at
\* most one backfill provider call is in flight however many requests
\* wait.
C18_Fifo ==
    [][ /\ translation_queue' # translation_queue
            => \/ /\ Len(translation_queue') = Len(translation_queue) + 1
                  /\ SubSeq(translation_queue', 1, Len(translation_queue))
                         = translation_queue
                  /\ wk' = wk
               \/ /\ translation_queue # <<>>
                  /\ translation_queue' = Tail(translation_queue)
                  /\ wk.pc = "get" /\ wk.word = Missing
                  /\ IF Head(translation_queue) = NoneRequest
                     THEN wk' = wk
                     ELSE wk'.pc = "rate" /\ wk'.word = Head(translation_queue)
        /\ (wk.word # Missing /\ WorkerStep)
            => \/ wk'.word = wk.word
               \/ wk.pc = "check" /\ wk' = IdleWorker
        /\ (wk.pc = "call") => wk.word # Missing
      ]_vars

\* a backfill provider call is in flight while the sentinel put after its
\* request waits in the queue
C18_Witness ==
    /\ wk.pc = "call"
    /\ wk.word \in InputWords
    /\ translation_queue = << NoneRequest >>

\* no request is queued or being processed and no lookup is under way
Quiescent ==
    /\ translation_queue = <<>>
    /\ wk = IdleWorker
    /\ lk.pc \in {"idle", "done"}

\* C19: once the requests of the words that lookup returned the
\* placeholder for have all been processed, the refresh callback has been
\* invoked, for each of these words, at least once with the word's result
\* in the cache.
C19_RefreshAfterPending ==
    Quiescent => \A w \in deferred : lower(w) \in refreshed

\* C20: every rate window, each provider's and the worker's global one,
\* holds at most as many timestamps as its limit.  The windows change only
\* by admission decisions and by the pruning of lookup's probe, so this is
\* the state right after every decision.
C20_WindowsWithinLimit ==
    /\ Len(request_timestamps) <= max_requests_per_minute
    /\ \A i \in 1..NumApis :
           Len(api_timestamps[i]) <= translation_apis[i].max_per_minute

\* C21: in every quiescent state the pending set is empty: a word marked
\* pending has been removed once the worker has put its result into the
\* cache, however the deferring lookup and the worker interleave.
C21_PendingDrained == Quiescent => pending_translations = {}

\* C22: when the worker starts the fallback chain for a request it has
\* dequeued, at least one provider has room in its window.
C22_ChainHasRoom ==
    [][ (wk.pc = "dbcheck" /\ WorkerStep /\ wk'.pc = "chain")
            => \E i \in 1..NumApis : ~LimitedNow(i) ]_vars

\* C23: the global window records exactly the runs of the provider chain.
\* A lookup or a worker request that enters the chain has made one
\* admission against the global window, a request the worker resolves from
\* its store re-check has made none, and every timestamp the global window
\* gains is counted for the request of the thread that appended it.
C23_GlobalBudget ==
    [][ /\ (lk.pc = "probe" /\ LookupStep /\ lk'.pc = "chain")
            => lk.gstamps = 1
        /\ (wk.pc = "dbcheck" /\ WorkerStep /\ wk'.pc = "chain")
            => wk.gstamps = 1
        /\ (wk.pc = "dbcheck" /\ WorkerStep /\ wk'.pc = "callback")
            => wk.gstamps = 0
        /\ (request_timestamps' # request_timestamps
              /\ request_timestamps' # Prune(request_timestamps, now))
            => \/ /\ WorkerStep /\ wk'.gstamps = wk.gstamps + 1
                  /\ request_timestamps' =
                         Append(Prune(request_timestamps, now), now)
               \/ /\ LookupStep /\ lk'.gstamps = lk.gstamps + 1
                  /\ request_timestamps' =
                         Append(Prune(request_timestamps, now), now)
      ]_vars

\* C24: when the store read of lookup(w) fails, the call returns (it does
\* not raise) and leaves no trace: the cache gains no entry for w and
\* nothing else changes, so that the next lookup of w reads the store
\* again.
C24_ReadFailureForgotten ==
    [][ (lk.pc = "store" /\ LookupStep /\ lk'.via = "readerror")
            => /\ lk'.pc = "done"
               /\ lk'.result # Missing
               /\ Key(lk.word) \notin DOMAIN word_dict'
               /\ UNCHANGED shared ]_vars

\* k is lowercase and trimmed
Normalized(k) == strip(lower(k)) = k

\* C25: every key of the cache and every word of the store is lowercase
\* and trimmed, whichever path wrote it: the synchronous path of lookup, its
\* store hit, or the worker serving a deferred request.
C25_KeysNormalized ==
    /\ \A k \in DOMAIN word_dict : Normalized(k)
    /\ \A k \in DOMAIN store : Normalized(k)

\* C26: the store holds at most one row for each normalized word, after
\* any interleaving of lookups and backfill processing.
C26_OneRowPerWord ==
    \A a, b \in DOMAIN store : word_lower(a) = word_lower(b) => a = b

\* the locks the thread inside lookup_word holds while it runs the step at
\* its position: the lock of provider i in the probe and in the rate check
\* of the chain
LookupLocks ==
    IF lk.pc \in {"probe", "chain"} THEN {translation_apis[lk.i].name} ELSE {}

\* the locks the worker holds while it runs the step at its position:
\* queue_lock around the global window and the sleep, the lock of provider
\* i in the rate check of the chain
WorkerLocks ==
    IF wk.pc \in {"rate", "sleep"} THEN {"queue_lock"}
    ELSE IF wk.pc = "chain" THEN {translation_apis[wk.i].name}
    ELSE {}

\* C27: every step that writes the cache or the pending set is run with a
\* lock held by the thread that runs it, and while one thread is at a
\* statement that writes one of the two structures the other thread is not
\* at a statement that writes or iterates the same structure.
C27_WritesUnderLock ==
    [][ /\ ((word_dict' # word_dict \/ pending_translations' # pending_translations)
              /\ LookupStep)
            => LookupLocks # {}
        /\ ((word_dict' # word_dict \/ pending_translations' # pending_translations)
              /\ WorkerStep)
            => WorkerLocks # {}
        /\ ~(lk.pc \in {"populate", "cachew"} /\ wk.pc = "callback")
        /\ ~(lk.pc = "mark" /\ wk.pc = "check")
      ]_vars

\* C28: a request leaves the queue once, by the worker taking the head,
\* and the worker puts nothing into the queue; the listener is invoked
\* once for each request the worker takes, before the worker returns to
\* the queue; after the listener has been invoked the worker does not go
\* back to the store re-check or to the chain, whether the chain has
\* failed or not; and from the listener the worker always returns to the
\* queue, whether the listener has raised or not.
C28_ExactlyOnce ==
    [][ /\ WorkerStep
            => \/ translation_queue' = translation_queue
               \/ /\ wk.pc = "get" /\ translation_queue # <<>>
                  /\ translation_queue' = Tail(translation_queue)
                  /\ wk'.pc = "rate" => /\ wk'.word = Head(translation_queue)
                                        /\ wk'.cb = 0
        /\ (wk.pc = "callback" /\ WorkerStep)
            => wk'.pc = "check" /\ wk'.cb = wk.cb + 1 /\ wk'.word = wk.word
        /\ (wk.pc \notin {"get", "callback", "check"} /\ WorkerStep)
            => /\ wk'.cb = wk.cb /\ wk.cb = 0
               /\ wk'.pc \notin {"get", "rate"}
        /\ (wk.pc = "check" /\ WorkerStep)
            => wk.cb = 1 /\ wk' = IdleWorker /\ wk.word \in served'
      ]_vars

\* the worker has served a request whose chain failed, the listener has
\* put the sentinel text into the cache, and the worker has taken the next
\* request
C28_Witness ==
    /\ wk.pc = "rate"
    /\ wk.word \in served
    /\ translated = {}
    /\ word_dict[lower(wk.word)].text = NoTranslationFound

\* C29: with the worker thread scheduled again and again, a queue that
\* holds n requests comes to hold fewer (its head is taken) and a request
\* the worker has taken is served to its end; a worker that sleeps on the
\* global window sleeps until the oldest timestamp of the window is 60
\* seconds old, which is at most 60 seconds away when it falls asleep.
C29_Progress ==
    /\ \A n \in 1..MaxQueue :
           (Len(translation_queue) = n) ~> (Len(translation_queue) < n)
    /\ (wk.pc # "get") ~> (wk = IdleWorker)
    /\ [](wk.pc = "sleep"
            => /\ wk.wake = request_timestamps[1] + Window
               /\ wk.wake <= now + Window)
    /\ [][ (wk.pc = "rate" /\ WorkerStep /\ wk'.pc = "sleep")
              => wk'.wake > now /\ wk'.wake <= now + Window ]_vars

\* the worker has slept on the global window and has gone on to the store
\* re-check: the window holds the timestamps it slept on and the one
\* appended after the sleep
C29_Witness ==
    /\ wk.pc = "dbcheck"
    /\ Len(request_timestamps) = max_requests_per_minute + 1

\* C30: when the worker's store re-check finds the word of the request it
\* has taken, the worker calls no provider, appends to no provider window
\* and does not write the store, up to its return to the queue, and the
\* listener is given the stored translation, which it puts into the cache.
C30_RecheckHit ==
    [][ /\ (wk.pc = "dbcheck" /\ WorkerStep
              /\ Select(store, lower(wk.word)) # NoneValue)
            => /\ wk'.pc = "callback"
               /\ wk'.tr = Str(store[lower(wk.word)])
               /\ wk'.tried = <<>>
               /\ UNCHANGED << shared, admitted, answered >>
        /\ (wk.pc = "callback" /\ WorkerStep /\ wk.tr.type = "str")
            => /\ wk'.pc = "check"
               /\ wk.tried = <<>> /\ wk'.tried = <<>>
               /\ word_dict'[lower(wk.word)].text = wk.tr.text
               /\ UNCHANGED << store, api_timestamps, admitted, answered >>
        /\ (wk.pc = "check" /\ WorkerStep /\ wk.tr.type = "str")
            => /\ wk' = IdleWorker
               /\ wk.tried = <<>>
               /\ UNCHANGED << store, api_timestamps, admitted, answered >>
      ]_vars

\* the worker has resolved a request from the store and has given the row
\* to the listener
C30_Witness ==
    /\ wk.pc = "check"
    /\ wk.tr.type = "str"
    /\ wk.tried = <<>>
    /\ lower(wk.word) \in DOMAIN store
    /\ wk.tr.text = store[lower(wk.word)]
    /\ word_dict[lower(wk.word)].text = store[lower(wk.word)]

\* C31: when the store write of a synchronous lookup fails after the chain
\* has returned a translation, the failure stays inside lookup: nothing
\* shared changes at the failing write, and lookup goes on to write the
\* cache entry with the provider's translation and provenance and returns
\* that translation.
C31_WriteFailure ==
    [][ /\ (lk.pc = "save" /\ LookupStep /\ "store" \notin lk'.wrote)
            => /\ lk'.pc = "cachew"
               /\ lk'.tr = lk.tr
               /\ UNCHANGED shared
        /\ (lk.pc = "cachew" /\ LookupStep /\ "store" \notin lk.wrote)
            => /\ lk'.pc = "done"
               /\ lk'.via = "sync"
               /\ lk'.result = lk.tr.text
               /\ IsFound(lk'.result)
               /\ word_dict'[Key(lk.word)] =
                      DictSource(lk.tr.text, translation_apis[Last(lk.tried)].name)
               /\ lk'.wrote = {"cache"}
      ]_vars

\* a synchronous lookup has returned the provider's translation and cached
\* it while the store, whose write failed, has no row for the word
C31_Witness ==
    /\ lk.pc = "done" /\ lk.via = "sync" /\ lk.result = ProviderText
    /\ lk.wrote = {"cache"}
    /\ Key(lk.word) \notin DOMAIN store
    /\ word_dict[Key(lk.word)].text = ProviderText

-----------------------------------------------------------------------------
(* C32: one appended word per word of the line *)

\* the words of ws[1..j] that have a clean word, i.e. that were looked up
RECURSIVE LookedUp(_, _)
LookedUp(ws, j) ==
    IF j = 0 THEN 0
    ELSE LookedUp(ws, j - 1)
         + (IF Segment(ws[j]).clean_word # <<>> THEN 1 ELSE 0)

\* where the j-th of the words ws starts in a text that separates them by
\* one character each
RECURSIVE StartOf(_, _)
StartOf(ws, j) ==
    IF j = 1 THEN 1 ELSE StartOf(ws, j - 1) + Len(ws[j - 1]) + 1

\* C32: word_for_word_line appends exactly one word for every word of
\* line.split(), in the order of the line: while the loop runs, the words
\* before position k have one appended word each; a word without a clean
\* word, and a word whose lookup returned "[no translation found]", is
\* appended exactly as it stood in the line; and the returned text is the
\* appended words in order with exactly one space between neighbours.
C32_OneWordPerWord ==
    ln.pc \in {"loop", "done"} =>
        /\ ln.k <= Len(ln.words) + 1
        /\ Len(ln.translated_words) = ln.k - 1
        /\ Len(ln.lookups) = LookedUp(ln.words, ln.k - 1)
        /\ \A j \in 1..Len(ln.translated_words) :
               \/ Segment(ln.words[j]).clean_word = <<>>
               \/ ln.lookups[LookedUp(ln.words, j)].result = NoTranslationFound
               => ln.translated_words[j] = ln.words[j]
        /\ ln.pc = "done" =>
               /\ ln.k = Len(ln.words) + 1
               /\ Len(ln.result)
                      = StartOf(ln.translated_words, Len(ln.words))
                        + Len(ln.translated_words[Len(ln.words)]) - 1
               /\ \A j \in 1..Len(ln.words) :
                      LET s == StartOf(ln.translated_words, j)
                          e == s + Len(ln.translated_words[j]) - 1
                      IN  /\ SubSeq(ln.result, s, e) = ln.translated_words[j]
                          /\ j < Len(ln.words) => ln.result[e + 1] = " "

\* a line of a punctuation-only word and a word nothing was found for has
\* been returned word for word
C32_Witness ==
    /\ ln.pc = "done"
    /\ Len(ln.words) = 2
    /\ Segment(ln.words[1]).clean_word = <<>>
    /\ Segment(ln.words[2]).suffix # <<>>
    /\ ln.lookups[1].result = NoTranslationFound
    /\ ln.translated_words = ln.words
    /\ ln.result = join(ln.words)

-----------------------------------------------------------------------------
(* C33: the clean word handed to lookup_word *)

\* C33: whenever word_for_word_line has called lookup_word for a word of
\* the line, the clean word it cut out of that word consists of word
\* characters only: every punctuation character of the word went into the
\* prefix or the suffix.
C33_CleanWordIsClean ==
    ln.pc = "loop" /\ lk.pc # "idle" =>
        LET clean_word == Segment(ln.words[ln.k]).clean_word
        IN  \A j \in 1..Len(clean_word) : IsWordChar(clean_word[j])

-----------------------------------------------------------------------------
(* DictionaryManager (src/db/db.py) *)

\* words typed at the prompt of the dictionary manager
DictWords == {"Gato", "Perro", "Hola"}

\* translations typed with the add command
ManualTexts == {"hound", "puss"}

\* the text MyMemory answers with
MyMemoryText == "kitty"

\* the built-in word list, cut to three entries
common_words ==
    << << "hola", "hello" >>, << "perro", "dog" >>, << "gato", "cat" >> >>

\* a tab-separated dictionary file of the dictionary directory
DataFile ==
    [name |-> "es-en.data",
     entries |-> << << "gato", "tomcat" >>, << "hola", "hi" >> >>]

\* SELECT translation FROM translations WHERE word = ?
WordRows(rows, word) == {r \in rows : r.word = word}

\* add_translation(word, translation, source) on the rows of the table
add_translation(rows, word, translation, source) ==
    IF WordRows(rows, word) # {}
    THEN IF source # "online"
         THEN { IF r.word = word
                THEN [r EXCEPT !.translation = translation, !.source = source]
                ELSE r : r \in rows }
         ELSE rows
    ELSE rows \cup {[word |-> word, translation |-> translation,
                     source |-> source]}

\* add_translation for every entry of a list, in its order
RECURSIVE AddEntries(_, _, _)
AddEntries(rows, entries, source) ==
    IF entries = <<>> THEN rows
    ELSE AddEntries(add_translation(rows, Head(entries)[1], Head(entries)[2],
                                    source),
                    Tail(entries), source)

\* the add command and the --add option: source 'manual'
AddCommand(word, translation) ==
    /\ dictionary' = add_translation(dictionary, lower(word), translation,
                                     "manual")
    /\ UNCHANGED << shared, now, lk, wk, ed, hist, ln >>

\* lookup_online(word): a word of the table is returned from the table;
\* otherwise MyMemory is asked and its answer stored with source 'online',
\* or the request fails and nothing is stored
lookup_online(word) ==
    LET w == strip(lower(word))
    IN  /\ IF WordRows(dictionary, w) # {}
           THEN dictionary' = dictionary
           ELSE \/ dictionary' = add_translation(dictionary, w, MyMemoryText,
                                                 "online")
                \/ dictionary' = dictionary
        /\ UNCHANGED << shared, now, lk, wk, ed, hist, ln >>

\* add_common_words(): every built-in word with source 'common'
add_common_words ==
    /\ dictionary' = AddEntries(dictionary, common_words, "common")
    /\ UNCHANGED << shared, now, lk, wk, ed, hist, ln >>

\* load_data_dictionary(file_path): every entry of the file, the source
\* being the name of the file
load_data_dictionary ==
    /\ dictionary' = AddEntries(dictionary, DataFile.entries, DataFile.name)
    /\ UNCHANGED << shared, now, lk, wk, ed, hist, ln >>

NextDictionary ==
    \/ \E word \in DictWords, translation \in ManualTexts :
           AddCommand(word, translation)
    \/ \E word \in DictWords : lookup_online(word)
    \/ add_common_words
    \/ load_data_dictionary

SpecDictionary == Init /\ [][NextDictionary]_vars

-----------------------------------------------------------------------------
(* C34: manual entries of the dictionary manager *)

\* C34: no step of the dictionary manager changes a row whose source is
\* 'manual' unless the step writes with source 'manual' itself: a manual
\* row is still in the table after the step, or the row of its word is
\* again a manual one.
C34_ManualKept ==
    [][ \A r \in dictionary :
            r.source = "manual" =>
                \/ r \in dictionary'
                \/ \E q \in dictionary' :
                       q.word = r.word /\ q.source = "manual" ]_vars

-----------------------------------------------------------------------------
(* C35: "[no translation found]" after the fallback chain *)

\* C35: a call of lookup_word that went past the admission probe returns
\* "[no translation found]" only after it has called at least one provider.
C35_NotFoundAfterCall ==
    lk.pc = "done" /\ lk.via = "sync" /\ lk.result = NoTranslationFound
        => lk.calls > 0

-----------------------------------------------------------------------------
(* C36: the memory cache against the store *)

\* C36: a key that has an entry in the memory cache and a row in the store
\* carries the same translation in both.
C36_CacheMatchesStore ==
    \A k \in DOMAIN word_dict \cap DOMAIN store : word_dict[k].text = store[k]

-----------------------------------------------------------------------------
(* C37: one queued request per word *)

\* C37: lookup_word puts a request into the queue only for a word that is
\* not marked pending and has no request in the queue, so that the queue
\* never holds two requests for one word.
C37_OneRequestPerWord ==
    [][ Len(translation_queue') > Len(translation_queue) =>
            /\ lk.word \notin pending_translations
            /\ \A j \in 1..Len(translation_queue) :
                   translation_queue[j] # lk.word ]_vars

-----------------------------------------------------------------------------
(* C38: failure strings in the translated line *)

\* C38: when word_for_word_line appends the word for a lookup that returned
\* "[no translation found]", "[error]" or "[lookup error]", it appends the
\* word as it stood in the line, and none of these strings.
C38_NoSentinelEmitted ==
    [][ /\ ln.pc = "loop"
        /\ lk.pc = "done"
        /\ lk.result \in {NoTranslationFound, ErrorText, LookupError}
        /\ Len(ln'.translated_words) > Len(ln.translated_words)
        => Last(ln'.translated_words) = ln.words[ln.k] ]_vars

-----------------------------------------------------------------------------
(* C39: what the fallback chain and the probe do to the rate windows *)

\* a is what is left of b after its oldest entries were removed
IsPruned(a, b) == \E m \in 0..Len(b) : a = SubSeq(b, m + 1, Len(b))

\* this step is one of the two chains going on to call provider i
CallsProvider(i) ==
    \/ lk.pc = "chain" /\ lk.i = i /\ lk'.pc = "call"
    \/ wk.pc = "chain" /\ wk.i = i /\ wk'.pc = "call"

\* C39: a step in which a run of the fallback chain, on either thread, goes
\* on to call provider i appends exactly one timestamp, the current time,
\* to the window of provider i; every other step (a skipped provider, the
\* provider call itself whatever it returns, the admission probe of
\* lookup_word) appends nothing to any window and at most removes old
\* entries.  A call of lookup_word has therefore stamped exactly the
\* providers it has called, each once.
C39_OneStampPerCall ==
    [][ /\ \A i \in 1..NumApis :
               IF CallsProvider(i)
               THEN /\ api_timestamps'[i] # <<>>
                    /\ Last(api_timestamps'[i]) = now
                    /\ IsPruned(SubSeq(api_timestamps'[i], 1,
                                       Len(api_timestamps'[i]) - 1),
                                api_timestamps[i])
               ELSE IsPruned(api_timestamps'[i], api_timestamps[i])
        /\ lk'.stamps = Len(lk'.tried)
        /\ lk'.calls = lk'.stamps - (IF lk'.pc = "call" THEN 1 ELSE 0)
        /\ \A m, n \in 1..Len(lk'.tried) : m < n => lk'.tried[m] < lk'.tried[n]
      ]_vars

\* a call of lookup_word has returned after its chain skipped the first
\* provider and called the second: one timestamp appended, to the second
C39_Witness ==
    /\ lk.pc = "done"
    /\ lk.via = "sync"
    /\ lk.tried = << 2 >>
    /\ lk.calls = 1
    /\ lk.stamps = 1
    /\ Last(api_timestamps[2]) = now

====
